---- MODULE Spec2Model ----
(***************************************************************************)
(* A model of the streaming relay handlers of the Gemini proxy.  The       *)
(* repository holds four variants of one request handler:                  *)
(*   "main"      src/main.ts             single fetch, safeWrite, 10 s     *)
(*                                       setInterval heartbeat             *)
(*   "part_000"  src/unnamed/part_000    retry loop, bare writer.write,    *)
(*                                       15 s setInterval heartbeat        *)
(*   "part_001"  src/unnamed/part_001    single fetch, fastWrite with the  *)
(*                                       isWriting / isFinished flags and  *)
(*                                       a 2 s idle-check loop             *)
(*   "part_002"  src/unnamed/part_002    retry loop, safeWrite, 15 s       *)
(*                                       setInterval heartbeat             *)
(* One request is followed from the first fetch to the end of its relay.   *)
(* Every await of the code is a step boundary: an action is the code that  *)
(* runs between two awaits.  The upstream server, the client and the clock *)
(* are the environment.                                                    *)
(***************************************************************************)
EXTENDS Integers, Sequences, FiniteSets, TLC

VARIABLES
  variant,        \* which handler serves the request
  rpc,            \* position of the handler before the relay starts
  attempt,        \* fetch calls made so far (the code's `attempt`)
  last,           \* outcome of the latest fetch
  response,       \* the code's `response`: status of the latest fetch that returned (0: undefined)
  netErrs,        \* fetch calls that threw a network error
  sleepMs,        \* duration of the backoff sleep in progress (0: none)
  clientStatus,   \* status of the Response returned to the client (0: none yet)
  caught,         \* what the handler's outer catch caught: "none", "fetch" (the
                  \* rethrown network error), "guard" (the `!response` guard)
  clientBody,     \* what the Response body is: "none", "stream", "upstream", "json"
  pump,           \* position of the background streaming process
  ctx,            \* which write the streaming process is in: "Init", "DataChunk", ...
  rd,             \* upstream chunks read so far
  upstream,       \* upstream body: "none", "open", "eof", "errored", "cancelled"
  wstate,         \* downstream writable: "writable", "closing", "closed", "errored"
  wq,             \* writes handed to writer.write() and not yet settled
  wres,           \* per task: result of its awaited write
  sink,           \* frames delivered downstream
  closeCalls,     \* writer.close() calls made
  rejected,       \* a downstream write has been rejected
  readsAfterRej,  \* reader.read() calls issued after the first rejection
  timerOn,        \* the setInterval heartbeat timer is scheduled
  nextTick,       \* time of its next tick
  hb,             \* position of each heartbeat callback / of the idle-check loop
  isWriting,      \* part_001 flag
  isFinished,     \* part_001 flag
  lastWriteTime,  \* time of the latest successful downstream write: part_001's
                  \* `lastWriteTime`; the other handlers keep no such time, for
                  \* them it records when a write last returned successfully
  now,            \* the clock, in ms since the relay started
  pathname,       \* url.pathname of the incoming request
  targetPath,     \* the code's `targetPath`
  fixes           \* how many times the path fix has been applied to targetPath

vars == <<variant, rpc, attempt, last, response, netErrs, sleepMs, clientStatus, clientBody, caught,
          pump, ctx,
          rd, upstream, wstate, wq, wres, sink, closeCalls, rejected,
          readsAfterRej, timerOn, nextTick, hb, isWriting, isFinished,
          lastWriteTime, now, pathname, targetPath, fixes>>

pathVars == <<pathname, targetPath, fixes>>
connVars == <<rpc, attempt, last, response, netErrs, sleepMs, clientStatus, clientBody, caught>>
flagVars == <<isWriting, isFinished, lastWriteTime>>
timerVars == <<timerOn, nextTick>>
readVars == <<rd, upstream, readsAfterRej>>
sinkVars == <<wstate, wq, wres, sink, closeCalls, rejected>>
relayVars == <<pump, ctx, readVars, sinkVars, timerVars, hb, flagVars, now>>

-----------------------------------------------------------------------------
(* Bounds of the model *)

MaxChunks == 2
MaxHb == 2
MaxSteps == 21
MaxPathLen == 4

(* Constants of the program *)

MaxAttempts == 3
BackoffUnitMs == 1000
IntervalMain == 10000
IntervalRetry == 15000
CheckIntervalMs == 2000
IdleThresholdMs == 10000
DefaultHighWaterMark == 1
LargeHighWaterMark == 16384

Variants == {"main", "part_000", "part_001", "part_002"}
HasRetry(v) == v \in {"part_000", "part_002"}
UsesSafeWrite(v) == v \in {"main", "part_002"}

Statuses == {200, 400, 429, 503}
\* What one fetch does: it returns a response or throws a network error.
Resp(s) == [kind |-> "response", status |-> s]
NetErr == [kind |-> "neterr", status |-> 0]
NoFetch == [kind |-> "none", status |-> 0]
Outcomes == {Resp(s) : s \in Statuses} \cup {NetErr}

RECURSIVE Gcd(_, _)
Gcd(a, b) == IF b = 0 THEN a ELSE Gcd(b, a % b)

\* The clock advances by the greatest common divisor of the program's timer
\* constants, so that it stops at every timer deadline.
Quantum == Gcd(Gcd(IntervalMain, IntervalRetry), Gcd(CheckIntervalMs, IdleThresholdMs))
Horizon == MaxSteps * Quantum

\* Tasks that await a write: the heartbeat callbacks 1 .. MaxHb and the streaming
\* process.  Detached marks a write nobody awaits (part_000's heartbeat).
HbTasks == 1 .. MaxHb
Pump == MaxHb + 1
Detached == MaxHb + 2
Tasks == HbTasks \cup {Pump}

Frame(k, n) == [kind |-> k, n |-> n]
StartFrame == Frame("start", 0)
HbFrame == Frame("hb", 0)
ErrFrame == Frame("err", 0)

-----------------------------------------------------------------------------
(* The path fix.  A path is the sequence of its pieces: "/" and the names  *)
(* between the slashes, so that startsWith and string concatenation are    *)
(* computed on the text and not on a label for it                          *)

PathPieces == {"/", "models", "v1beta", "x"}
ModelsPrefix == <<"/", "models">>
VersionSegment == <<"/", "v1beta">>

RECURSIVE SeqsUpTo(_, _)
SeqsUpTo(S, n) ==
  IF n = 0 THEN {<<>>}
  ELSE LET shorter == SeqsUpTo(S, n - 1) IN
         shorter \cup {Append(q, x) : q \in shorter, x \in S}

\* url.pathname always begins with "/".
Pathnames == {p \in SeqsUpTo(PathPieces, MaxPathLen) : Len(p) >= 1 /\ p[1] = "/"}

StartsWith(p, pre) == Len(p) >= Len(pre) /\ SubSeq(p, 1, Len(pre)) = pre

PathFixBug(p) == IF StartsWith(p, <<"/">>) THEN VersionSegment \o p ELSE p
PathFix(p) == IF StartsWith(p, ModelsPrefix) THEN VersionSegment \o p ELSE p

-----------------------------------------------------------------------------
(* The retry connector *)

IsRetryableBug(s) == s = 503
IsRetryable(s) == s = 503 \/ s = 429

RethrowsBug(a) == FALSE
Rethrows(a) == a = MaxAttempts

Backoff(a) == BackoffUnitMs * a

ResponseOk(s) == s >= 200 /\ s <= 299

HeartbeatInterval(v) == IF v = "main" THEN IntervalMain ELSE IntervalRetry

HighWaterMark(v) == IF v = "part_001" THEN LargeHighWaterMark ELSE DefaultHighWaterMark

-----------------------------------------------------------------------------
(* The downstream writable (the TransformStream's writable side) as the    *)
(* code sees it through writer.ready, writer.write and writer.close        *)

\* writer.ready is settled: the queue is below the high water mark, or the
\* stream is closing, closed or errored.
ReadySettled == wstate # "writable" \/ Len(wq) < HighWaterMark(variant)

\* `await writer.ready`: the task waits at "ready" for the promise to settle; at
\* "go" the promise has settled and the task's continuation is due.  Every task
\* that waits holds the same promise: when it settles, all of them go on.
AwaitReady == IF ReadySettled THEN "go" ELSE "ready"
Release(p) == IF p = "ready" THEN "go" ELSE p
ReleaseAll == [i \in HbTasks |-> Release(hb[i])]

\* `await writer.ready` throws once the stream has errored: safeWrite and
\* fastWrite then go to their catch and writer.write() is not called.  (A close
\* resolves the promise instead: the write is called and rejects.)
ReadyRejects == wstate = "errored"

\* writer.write(f) called by task t (or, for a task that awaited writer.ready
\* on an errored stream, the rejection of that await): queued while the stream is writable,
\* rejected at once otherwise.
EnterWrite(t, f) ==
  IF wstate = "writable"
    THEN /\ wq' = Append(wq, [by |-> t, f |-> f])
         /\ wres' = [wres EXCEPT ![t] = "pending"]
         /\ rejected' = rejected
    ELSE /\ wq' = wq
         /\ wres' = [wres EXCEPT ![t] = "rej"]
         /\ rejected' = TRUE

\* writer.close(): starts closing a writable stream, rejects otherwise.
\* `to` is where the caller waits for the close, `el` where it goes on a
\* rejected close.
CallClose(to, el) ==
  /\ closeCalls' = closeCalls + 1
  /\ IF wstate = "writable"
       THEN wstate' = "closing" /\ pump' = to /\ hb' = ReleaseAll
       ELSE wstate' = wstate /\ pump' = el /\ hb' = hb

\* A promise the code awaits has settled and its continuation has not run yet:
\* continuations are microtasks, they run before any timer or I/O event.
MicrotaskPending ==
  \/ \E t \in Tasks : wres[t] \in {"ok", "rej"}
  \/ pump = "go"
  \/ \E i \in HbTasks : hb[i] = "go"

\* The frame that forwards the k-th upstream chunk: the chunk itself.
ChunkFrameBug(k) == Frame("data", 1)
ChunkFrame(k) == Frame("data", k)

IssueRead ==
  /\ pump' = "read"
  /\ readsAfterRej' = readsAfterRej + (IF rejected THEN 1 ELSE 0)

PumpFrameBug ==
  CASE ctx = "DataChunk" -> ChunkFrame(rd)
    [] OTHER -> ErrFrame
PumpFrame ==
  CASE ctx = "Init" -> StartFrame
    [] ctx = "DataChunk" -> ChunkFrame(rd)
    [] OTHER -> ErrFrame

-----------------------------------------------------------------------------
(* Start of the relay: the stream is created, the background process runs  *)
(* to its first await and the Response is returned                         *)

RelayStart(status, hasBody) ==
  /\ rpc' = "relay"
  /\ clientStatus' = status
  /\ clientBody' = "stream"
  /\ upstream' = IF hasBody THEN "open" ELSE "none"
  /\ UNCHANGED <<rd, readsAfterRej, sink, timerOn, now>>
  /\ nextTick' = IF variant = "part_001" THEN now + CheckIntervalMs ELSE nextTick
  /\ IF ~hasBody
       THEN \* no reader: await writer.close()
            /\ wstate' = "closing"
            /\ closeCalls' = closeCalls + 1
            /\ pump' = "close0"
            /\ ctx' = "NoBody"
            /\ isFinished' = (variant = "part_001")
            /\ hb' = IF variant = "part_001" THEN [hb EXCEPT ![1] = "sleep"] ELSE hb
            /\ UNCHANGED <<wq, wres, rejected, isWriting, lastWriteTime>>
       ELSE /\ ctx' = "Init"
            /\ closeCalls' = closeCalls
            /\ UNCHANGED <<rejected, isFinished, lastWriteTime>>
            /\ CASE UsesSafeWrite(variant) ->
                      \* safeWrite(": start"): await writer.ready
                      /\ wstate' = "writable"
                      /\ pump' = "go"
                      /\ UNCHANGED <<wq, wres, hb, isWriting>>
                 [] variant = "part_000" ->
                      \* await writer.write(": start")
                      /\ wstate' = "writable"
                      /\ pump' = "write"
                      /\ wq' = Append(wq, [by |-> Pump, f |-> StartFrame])
                      /\ wres' = [wres EXCEPT ![Pump] = "pending"]
                      /\ UNCHANGED <<hb, isWriting>>
                 [] OTHER ->
                      \* part_001: the idle-check loop starts its first sleep,
                      \* fastWrite(": start") sets isWriting and awaits writer.ready
                      /\ wstate' = "writable"
                      /\ pump' = "go"
                      /\ hb' = [hb EXCEPT ![1] = "sleep"]
                      /\ isWriting' = TRUE
                      /\ UNCHANGED <<wq, wres>>

-----------------------------------------------------------------------------
(* Connecting upstream *)

Fail500Bug ==
  /\ rpc' = "failed"
  /\ clientStatus' = 200
  /\ clientBody' = "json"
  /\ UNCHANGED relayVars

\* The handler's outer catch: a 500 Response with the JSON error body.
Fail500 ==
  /\ rpc' = "failed"
  /\ clientStatus' = 500
  /\ clientBody' = "json"
  /\ UNCHANGED relayVars

\* One fetch of the retry loop of part_000 / part_002, to the next await.
FetchRetry(o) ==
  /\ HasRetry(variant)
  /\ rpc = "connect"
  /\ attempt < MaxAttempts
  /\ attempt' = attempt + 1
  /\ last' = o
  /\ IF o = NetErr
       THEN /\ netErrs' = netErrs + 1
            /\ UNCHANGED <<response, sleepMs>>
            /\ IF Rethrows(attempt')
                 THEN Fail500 /\ caught' = "fetch"
                 ELSE IF attempt' < MaxAttempts
                        THEN UNCHANGED <<rpc, clientStatus, clientBody, caught, relayVars>>
                        ELSE IF response = 0
                               THEN Fail500 /\ caught' = "guard"
                               ELSE /\ caught' = caught
                                    /\ \E hasBody \in BOOLEAN : RelayStart(response, hasBody)
       ELSE /\ response' = o.status
            /\ netErrs' = netErrs
            /\ caught' = caught
            /\ IF IsRetryable(o.status)
                 THEN /\ rpc' = "sleep"
                      /\ sleepMs' = Backoff(attempt')
                      /\ UNCHANGED <<clientStatus, clientBody, relayVars>>
                 ELSE /\ sleepMs' = sleepMs
                      /\ \E hasBody \in BOOLEAN : RelayStart(o.status, hasBody)

\* The backoff sleep ends: `continue`, then the loop condition; on leaving
\* the loop, the `!response` guard and the start of the relay.
SleepDone ==
  /\ rpc = "sleep"
  /\ sleepMs' = 0
  /\ UNCHANGED <<attempt, last, response, netErrs>>
  /\ IF attempt < MaxAttempts
       THEN /\ rpc' = "connect"
            /\ UNCHANGED <<clientStatus, clientBody, caught, relayVars>>
       ELSE IF response = 0
              THEN Fail500 /\ caught' = "guard"
              ELSE /\ caught' = caught
                   /\ \E hasBody \in BOOLEAN : RelayStart(response, hasBody)

\* The single fetch of main.ts / part_001 and the `!response.ok` pass-through.
FetchOnce(o) ==
  /\ ~HasRetry(variant)
  /\ rpc = "connect"
  /\ attempt' = attempt + 1
  /\ last' = o
  /\ sleepMs' = sleepMs
  /\ IF o = NetErr
       THEN /\ response' = response
            /\ netErrs' = netErrs + 1
            /\ caught' = "fetch"
            /\ Fail500
       ELSE /\ response' = o.status
            /\ netErrs' = netErrs
            /\ caught' = caught
            /\ IF ~ResponseOk(o.status)
                 THEN /\ rpc' = "passthrough"
                      /\ clientStatus' = o.status
                      /\ clientBody' = "upstream"
                      /\ UNCHANGED relayVars
                 ELSE \E hasBody \in BOOLEAN : RelayStart(o.status, hasBody)

Fetch == \E o \in Outcomes : FetchRetry(o) \/ FetchOnce(o)

-----------------------------------------------------------------------------
(* The background streaming process of main.ts and part_002 *)

\* finally: clearInterval, then writer.close() with its rejection swallowed.
FinallySafe ==
  /\ timerOn' = FALSE
  /\ nextTick' = nextTick
  /\ CallClose("close", "done")

\* safeWrite / fastWrite: writer.ready has settled, writer.write(data) is called.
PumpReady ==
  /\ variant # "part_000"
  /\ pump = "go"
  /\ EnterWrite(Pump, PumpFrame)
  /\ pump' = "write"
  /\ UNCHANGED <<variant, pathVars, connVars, ctx, readVars, wstate, sink, closeCalls,
                 timerVars, hb, flagVars, now>>

\* What the data pump does with the result of safeWrite.
StopsOnFailure(success) == ~success

\* safeWrite returns to the streaming process.
PumpWriteDoneSafe ==
  /\ UsesSafeWrite(variant)
  /\ pump = "write"
  /\ wres[Pump] \in {"ok", "rej"}
  /\ wres' = [wres EXCEPT ![Pump] = "none"]
  /\ lastWriteTime' = IF wres[Pump] = "ok" THEN now ELSE lastWriteTime
  /\ UNCHANGED <<variant, pathVars, connVars, ctx, rd, upstream, wq, sink, rejected,
                 isWriting, isFinished, now>>
  /\ LET success == wres[Pump] = "ok" IN
       CASE ctx = "Init" /\ success ->
              \* setInterval, then the first reader.read()
              /\ timerOn' = TRUE
              /\ nextTick' = now + HeartbeatInterval(variant)
              /\ IssueRead
              /\ UNCHANGED <<wstate, closeCalls, hb>>
         [] ctx = "DataChunk" /\ ~StopsOnFailure(success) ->
              /\ IssueRead
              /\ UNCHANGED <<wstate, closeCalls, timerVars, hb>>
         [] OTHER ->
              /\ FinallySafe
              /\ readsAfterRej' = readsAfterRej

\* reader.read() settles in main.ts / part_002.
PumpReadSafe(r) ==
  /\ UsesSafeWrite(variant)
  /\ pump = "read"
  /\ ~MicrotaskPending
  /\ UNCHANGED <<variant, pathVars, connVars, wq, wres, sink, rejected, flagVars, now,
                 readsAfterRej>>
  /\ CASE r = "chunk" ->
            /\ rd < MaxChunks
            /\ rd' = rd + 1
            /\ ctx' = "DataChunk"
            /\ pump' = AwaitReady
            /\ UNCHANGED <<upstream, wstate, closeCalls, timerVars, hb>>
       [] r = "eof" ->
            /\ upstream' = "eof"
            /\ FinallySafe
            /\ UNCHANGED <<rd, ctx>>
       [] OTHER ->
            \* the read throws: catch, safeWrite of the error notification
            /\ upstream' = "errored"
            /\ ctx' = "ErrorNotification"
            /\ pump' = AwaitReady
            /\ UNCHANGED <<rd, wstate, closeCalls, timerVars, hb>>

-----------------------------------------------------------------------------
(* The background streaming process of part_000 *)

\* await writer.write(...) settles.
PumpWriteDoneP0 ==
  /\ variant = "part_000"
  /\ pump = "write"
  /\ wres[Pump] \in {"ok", "rej"}
  /\ wres' = [wres EXCEPT ![Pump] = "none"]
  /\ lastWriteTime' = IF wres[Pump] = "ok" THEN now ELSE lastWriteTime
  /\ UNCHANGED <<variant, pathVars, connVars, rd, upstream, wq, sink, rejected,
                 isWriting, isFinished, now>>
  /\ IF wres[Pump] = "ok"
       THEN /\ IssueRead
            /\ UNCHANGED <<ctx, wstate, closeCalls, hb>>
            /\ IF ctx = "Init"
                 THEN /\ timerOn' = TRUE
                      /\ nextTick' = now + HeartbeatInterval(variant)
                 ELSE UNCHANGED timerVars
       ELSE \* the write throws: catch, writer.close(); the interval is left running
            /\ ctx' = "Catch"
            /\ CallClose("close", "done")
            /\ UNCHANGED <<timerVars, readsAfterRej>>

\* reader.read() settles in part_000.
PumpReadP0(r) ==
  /\ variant = "part_000"
  /\ pump = "read"
  /\ ~MicrotaskPending
  /\ UNCHANGED <<variant, pathVars, connVars, sink, flagVars, now, readsAfterRej>>
  /\ CASE r = "chunk" ->
            /\ rd < MaxChunks
            /\ rd' = rd + 1
            /\ ctx' = "DataChunk"
            /\ EnterWrite(Pump, ChunkFrame(rd + 1))
            /\ pump' = "write"
            /\ UNCHANGED <<upstream, wstate, closeCalls, timerVars, hb>>
       [] r = "eof" ->
            \* clearInterval, await writer.close(); a rejected close goes to
            \* the catch, which calls writer.close() again
            /\ upstream' = "eof"
            /\ ctx' = "Eof"
            /\ timerOn' = FALSE
            /\ nextTick' = nextTick
            /\ IF wstate = "writable"
                 THEN /\ wstate' = "closing"
                      /\ pump' = "close"
                      /\ closeCalls' = closeCalls + 1
                 ELSE /\ wstate' = wstate
                      /\ pump' = "done"
                      /\ closeCalls' = closeCalls + 2
            /\ UNCHANGED <<rd, wq, wres, rejected, hb>>
       [] OTHER ->
            /\ upstream' = "errored"
            /\ ctx' = "Catch"
            /\ CallClose("close", "done")
            /\ UNCHANGED <<rd, wq, wres, rejected, timerVars>>

-----------------------------------------------------------------------------
(* The background streaming process of part_001 *)

FinallyP1 ==
  /\ isFinished' = TRUE
  /\ CallClose("close", "done")

\* fastWrite returns to the streaming process: it has no result, the loop
\* goes on to the next reader.read().
PumpWriteDoneP1 ==
  /\ variant = "part_001"
  /\ pump = "write"
  /\ wres[Pump] \in {"ok", "rej"}
  /\ wres' = [wres EXCEPT ![Pump] = "none"]
  /\ isWriting' = FALSE
  /\ lastWriteTime' = IF wres[Pump] = "ok" THEN now ELSE lastWriteTime
  /\ UNCHANGED <<variant, pathVars, connVars, ctx, rd, upstream, wq, sink, rejected,
                 timerVars, now>>
  /\ IF ctx \in {"Init", "DataChunk"}
       THEN /\ isFinished' = (isFinished \/ wres[Pump] = "rej")
            /\ IssueRead
            /\ UNCHANGED <<wstate, closeCalls, hb>>
       ELSE /\ FinallyP1
            /\ readsAfterRej' = readsAfterRej

\* reader.read() settles in part_001.
PumpReadP1(r) ==
  /\ variant = "part_001"
  /\ pump = "read"
  /\ ~MicrotaskPending
  /\ UNCHANGED <<variant, pathVars, connVars, wq, wres, sink, rejected, timerVars, now,
                 lastWriteTime, readsAfterRej>>
  /\ CASE r = "chunk" ->
            /\ rd < MaxChunks
            /\ rd' = rd + 1
            /\ upstream' = upstream
            /\ IF isFinished
                 THEN FinallyP1 /\ UNCHANGED <<ctx, isWriting>>
                 ELSE /\ ctx' = "DataChunk"
                      /\ pump' = AwaitReady
                      /\ isWriting' = TRUE
                      /\ UNCHANGED <<isFinished, wstate, closeCalls, hb>>
       [] r = "eof" ->
            /\ upstream' = "eof"
            /\ FinallyP1
            /\ UNCHANGED <<rd, ctx, isWriting>>
       [] OTHER ->
            /\ upstream' = "errored"
            /\ rd' = rd
            /\ IF isFinished
                 THEN FinallyP1 /\ UNCHANGED <<ctx, isWriting>>
                 ELSE /\ ctx' = "ErrorNotification"
                      /\ pump' = AwaitReady
                      /\ isWriting' = TRUE
                      /\ UNCHANGED <<isFinished, wstate, closeCalls, hb>>

PumpRead == \E r \in {"chunk", "eof", "error"} :
  PumpReadSafe(r) \/ PumpReadP0(r) \/ PumpReadP1(r)

-----------------------------------------------------------------------------
(* Heartbeats *)

FreeSlot == CHOOSE i \in HbTasks : hb[i] = "idle" /\ \A j \in HbTasks : hb[j] = "idle" => i <= j

TimerDue == timerOn /\ now >= nextTick

\* A tick of the setInterval timer of main.ts / part_002: the async callback
\* starts and runs to safeWrite's `await writer.ready`.
TickSafe ==
  /\ UsesSafeWrite(variant)
  /\ TimerDue
  /\ ~MicrotaskPending
  /\ \E i \in HbTasks : hb[i] = "idle"
  /\ hb' = [hb EXCEPT ![FreeSlot] = AwaitReady]
  /\ nextTick' = nextTick + HeartbeatInterval(variant)
  /\ UNCHANGED <<variant, pathVars, connVars, pump, ctx, readVars, sinkVars, timerOn, flagVars, now>>

\* A tick of the setInterval timer of part_000: writer.write() is called and
\* its promise dropped (the try / catch around it sees no rejection).
TickDetached ==
  /\ variant = "part_000"
  /\ TimerDue
  /\ ~MicrotaskPending
  /\ nextTick' = nextTick + HeartbeatInterval(variant)
  /\ IF wstate = "writable"
       THEN wq' = Append(wq, [by |-> Detached, f |-> HbFrame]) /\ rejected' = rejected
       ELSE wq' = wq /\ rejected' = TRUE
  /\ UNCHANGED <<variant, pathVars, connVars, pump, ctx, readVars, wstate, wres, sink, closeCalls,
                 timerOn, hb, flagVars, now>>

\* A heartbeat's `await writer.ready` has settled: writer.write(keep-alive).
HbReady(i) ==
  /\ hb[i] = "go"
  /\ EnterWrite(i, HbFrame)
  /\ hb' = [hb EXCEPT ![i] = "write"]
  /\ UNCHANGED <<variant, pathVars, connVars, pump, ctx, readVars, wstate, sink, closeCalls,
                 timerVars, flagVars, now>>

\* safeWrite returns to the interval callback of main.ts / part_002.
HbWriteDoneSafe(i) ==
  /\ UsesSafeWrite(variant)
  /\ hb[i] = "write"
  /\ wres[i] \in {"ok", "rej"}
  /\ wres' = [wres EXCEPT ![i] = "none"]
  /\ hb' = [hb EXCEPT ![i] = "idle"]
  /\ timerOn' = (timerOn /\ wres[i] = "ok")
  /\ lastWriteTime' = IF wres[i] = "ok" THEN now ELSE lastWriteTime
  /\ UNCHANGED <<variant, pathVars, connVars, pump, ctx, readVars, wstate, wq, sink, closeCalls,
                 rejected, nextTick, isWriting, isFinished, now>>

\* The idle test of part_001's heartbeat loop.
IdleBug(t) == t - lastWriteTime > IdleThresholdMs + CheckIntervalMs
Idle(t) == t - lastWriteTime > IdleThresholdMs

\* part_001: the loop's sleep ends; it stops, sends a keep-alive or sleeps again.
IdleCheck ==
  /\ variant = "part_001"
  /\ hb[1] = "sleep"
  /\ now >= nextTick
  /\ ~MicrotaskPending
  /\ UNCHANGED <<variant, pathVars, connVars, pump, ctx, readVars, sinkVars, timerOn,
                 isFinished, lastWriteTime, now>>
  /\ IF isFinished
       THEN /\ hb' = [hb EXCEPT ![1] = "stopped"]
            /\ UNCHANGED <<nextTick, isWriting>>
       ELSE IF ~isWriting /\ Idle(now)
              THEN /\ hb' = [hb EXCEPT ![1] = AwaitReady]
                   /\ isWriting' = TRUE
                   /\ nextTick' = nextTick
              ELSE /\ nextTick' = now + CheckIntervalMs
                   /\ UNCHANGED <<hb, isWriting>>

\* part_001: fastWrite returns to the heartbeat loop.
HbWriteDoneP1 ==
  /\ variant = "part_001"
  /\ hb[1] = "write"
  /\ wres[1] \in {"ok", "rej"}
  /\ wres' = [wres EXCEPT ![1] = "none"]
  /\ isWriting' = FALSE
  /\ lastWriteTime' = IF wres[1] = "ok" THEN now ELSE lastWriteTime
  /\ isFinished' = (isFinished \/ wres[1] = "rej")
  /\ hb' = [hb EXCEPT ![1] = IF isFinished' THEN "stopped" ELSE "sleep"]
  /\ nextTick' = IF isFinished' THEN nextTick ELSE now + CheckIntervalMs
  /\ UNCHANGED <<variant, pathVars, connVars, pump, ctx, readVars, wstate, wq, sink, closeCalls,
                 rejected, timerOn, now>>

-----------------------------------------------------------------------------
(* The environment: the client, the platform's stream and the clock *)

\* The client takes the oldest queued write: its promise resolves.
Deliver ==
  /\ wstate \in {"writable", "closing"}
  /\ wq # <<>>
  /\ ~MicrotaskPending
  /\ sink' = Append(sink, Head(wq).f)
  /\ wq' = Tail(wq)
  /\ wres' = IF Head(wq).by \in Tasks THEN [wres EXCEPT ![Head(wq).by] = "ok"] ELSE wres
  /\ IF Len(Tail(wq)) < HighWaterMark(variant)
       THEN pump' = Release(pump) /\ hb' = ReleaseAll
       ELSE UNCHANGED <<pump, hb>>
  /\ lastWriteTime' = IF Head(wq).by = Detached THEN now ELSE lastWriteTime
  /\ UNCHANGED <<variant, pathVars, connVars, ctx, readVars, wstate, closeCalls, rejected,
                 timerVars, isWriting, isFinished, now>>

\* The close completes once every queued write is delivered; the streaming
\* process runs on from its `await writer.close()`.
CloseDone ==
  /\ wstate = "closing"
  /\ wq = <<>>
  /\ ~MicrotaskPending
  /\ wstate' = "closed"
  /\ pump' = "done"
  /\ closeCalls' = IF pump = "close0" /\ variant # "part_000"
                     THEN closeCalls + 1 ELSE closeCalls
  /\ UNCHANGED <<variant, pathVars, connVars, ctx, readVars, wq, wres, sink, rejected,
                 timerVars, hb, flagVars, now>>

\* The client goes away: the stream errors, every pending write and a
\* pending close reject.
Disconnect ==
  /\ wstate \in {"writable", "closing"}
  /\ ~MicrotaskPending
  /\ wstate' = "errored"
  /\ wq' = <<>>
  /\ wres' = [t \in Tasks |-> IF wres[t] = "pending" THEN "rej" ELSE wres[t]]
  /\ rejected' = (rejected \/ wq # <<>>)
  /\ hb' = ReleaseAll
  /\ UNCHANGED <<variant, pathVars, connVars, readVars, sink, timerVars, flagVars, now>>
  /\ CASE pump = "close0" /\ UsesSafeWrite(variant) ->
            \* the rejected close goes to the catch: safeWrite(error notification)
            /\ pump' = "go"
            /\ ctx' = "ErrorNotification"
            /\ closeCalls' = closeCalls
       [] pump = "close0" \/ (pump = "close" /\ ctx = "Eof") ->
            \* the rejected close is caught; writer.close() is called again
            /\ pump' = "done"
            /\ ctx' = ctx
            /\ closeCalls' = closeCalls + 1
       [] pump = "close" /\ ctx # "Eof" ->
            /\ pump' = "done"
            /\ UNCHANGED <<ctx, closeCalls>>
       [] OTHER -> pump' = Release(pump) /\ UNCHANGED <<ctx, closeCalls>>

TimerPending ==
  \/ timerOn
  \/ variant = "part_001" /\ \E i \in HbTasks : hb[i] \in {"sleep", "ready", "go", "write"}

\* Time passes, unless a timer is due.
Advance ==
  /\ rpc = "relay"
  /\ TimerPending
  /\ ~TimerDue
  /\ ~(variant = "part_001" /\ hb[1] = "sleep" /\ now >= nextTick)
  /\ now < Horizon
  /\ ~MicrotaskPending
  /\ now' = now + Quantum
  /\ UNCHANGED <<variant, pathVars, connVars, pump, ctx, readVars, sinkVars, timerVars, hb, flagVars>>

-----------------------------------------------------------------------------

Init ==
  /\ variant \in Variants
  /\ rpc = "connect"
  /\ attempt = 0
  /\ netErrs = 0
  /\ last = NoFetch
  /\ response = 0
  /\ sleepMs = 0
  /\ clientStatus = 0
  /\ clientBody = "none"
  /\ caught = "none"
  /\ pump = "idle"
  /\ ctx = "none"
  /\ rd = 0
  /\ upstream = "none"
  /\ wstate = "none"
  /\ wq = <<>>
  /\ wres = [t \in Tasks |-> "none"]
  /\ sink = <<>>
  /\ closeCalls = 0
  /\ rejected = FALSE
  /\ readsAfterRej = 0
  /\ timerOn = FALSE
  /\ nextTick = 0
  /\ hb = [i \in HbTasks |-> "idle"]
  /\ isWriting = FALSE
  /\ isFinished = FALSE
  /\ lastWriteTime = 0
  /\ now = 0
  /\ pathname = ModelsPrefix \o <<"/", "x">>
  /\ targetPath = PathFix(pathname)
  /\ fixes = 1

Connect == (Fetch \/ SleepDone) /\ UNCHANGED <<variant, pathVars>>

Next ==
  \/ Connect
  \/ PumpReady
  \/ PumpWriteDoneSafe
  \/ PumpWriteDoneP0
  \/ PumpWriteDoneP1
  \/ PumpRead
  \/ TickSafe
  \/ TickDetached
  \/ \E i \in HbTasks : HbReady(i)
  \/ \E i \in HbTasks : HbWriteDoneSafe(i)
  \/ IdleCheck
  \/ HbWriteDoneP1
  \/ Deliver
  \/ CloseDone
  \/ Disconnect
  \/ Advance

Spec == Init /\ [][Next]_vars

-----------------------------------------------------------------------------
(* The path fix on its own: every pathname, the fix applied once and then  *)
(* once more to its own result                                             *)

InitPath ==
  /\ variant \in Variants
  /\ rpc = "connect"
  /\ attempt = 0
  /\ netErrs = 0
  /\ last = NoFetch
  /\ response = 0
  /\ sleepMs = 0
  /\ clientStatus = 0
  /\ clientBody = "none"
  /\ caught = "none"
  /\ pump = "idle"
  /\ ctx = "none"
  /\ rd = 0
  /\ upstream = "none"
  /\ wstate = "none"
  /\ wq = <<>>
  /\ wres = [t \in Tasks |-> "none"]
  /\ sink = <<>>
  /\ closeCalls = 0
  /\ rejected = FALSE
  /\ readsAfterRej = 0
  /\ timerOn = FALSE
  /\ nextTick = 0
  /\ hb = [i \in HbTasks |-> "idle"]
  /\ isWriting = FALSE
  /\ isFinished = FALSE
  /\ lastWriteTime = 0
  /\ now = 0
  /\ pathname \in Pathnames
  /\ targetPath = pathname
  /\ fixes = 0

ApplyPathFix ==
  /\ fixes < 2
  /\ targetPath' = PathFix(targetPath)
  /\ fixes' = fixes + 1
  /\ UNCHANGED <<variant, connVars, relayVars, pathname>>

NextPath == ApplyPathFix

SpecPath == InitPath /\ [][NextPath]_vars

-----------------------------------------------------------------------------
(* Properties *)

PumpInFlight == \E k \in DOMAIN wq : wq[k].by = Pump
HbInFlight == \E k \in DOMAIN wq : wq[k].by # Pump
HbSubmitted ==
  \/ \E k \in DOMAIN wq : wq[k].f = HbFrame
  \/ \E k \in DOMAIN sink : sink[k] = HbFrame
Terminated == pump \in {"close", "done"}
LoopEnded == rpc \in {"relay", "passthrough", "failed"}
RetryableOutcome(o) == o = NetErr \/ (o.kind = "response" /\ o.status \in {429, 503})
NotMarker(f) == f.kind \notin {"start", "hb"}

\* C1: a write submitted by the heartbeat and a write submitted by the data
\* pump are never in flight (handed to writer.write() and not yet settled) at
\* the same time.
C1_WritesNeverOverlap == ~(PumpInFlight /\ HbInFlight)

\* C2: when the upstream ended in EOF and no downstream write was rejected,
\* the frames delivered downstream, start marker and heartbeats removed, are
\* exactly the upstream chunks 1 .. rd in upstream order.
C2_ForwardedEqualsUpstream ==
  (upstream = "eof" /\ ~rejected) =>
    SelectSeq(sink, NotMarker) = [k \in 1 .. rd |-> Frame("data", k)]

C2_Witness ==
  /\ upstream = "eof"
  /\ ~rejected
  /\ pump = "done"
  /\ rd = MaxChunks
  /\ \E k \in DOMAIN sink : sink[k] = HbFrame /\ k < Len(sink)

\* C3: in the handlers with a retry loop, a further fetch is made if and only
\* if the previous one returned 429 or 503 or threw and fewer than 3 fetches
\* have been made; never more than 3 fetches are made; the first response with
\* another status ends the loop and its status is the one relayed.
C3_RetryIffTransient ==
  /\ [](HasRetry(variant) =>
          /\ attempt <= 3
          /\ LoopEnded => ~(RetryableOutcome(last) /\ attempt < 3)
          /\ (last.kind = "response" /\ ~RetryableOutcome(last)) =>
                (rpc = "relay" /\ clientStatus = last.status))
  /\ [][(HasRetry(variant) /\ attempt' = attempt + 1 /\ attempt >= 1) =>
          (RetryableOutcome(last) /\ attempt < 3)]_vars

C3_Witness ==
  /\ HasRetry(variant)
  /\ attempt = 3
  /\ netErrs = 0
  /\ last = Resp(200)
  /\ rpc = "relay"
  /\ clientStatus = 200
  /\ \E k \in DOMAIN sink : sink[k].kind = "data"

\* C4: once a downstream write has been rejected, the data pump issues no
\* further reader.read().
C4_NoReadAfterRejection == readsAfterRej = 0

\* C5: an upstream response that is neither 2xx nor 429 / 503 is passed
\* through: no further fetch, the client gets that status and exactly the
\* upstream body, and no relay frame (start marker, heartbeat, error frame) is
\* produced.
C5_ErrorPassedThrough ==
  (last.kind = "response" /\ ~ResponseOk(last.status) /\ ~RetryableOutcome(last)) =>
    /\ rpc = "passthrough"
    /\ clientStatus = last.status
    /\ clientBody = "upstream"
    /\ wq = <<>> /\ sink = <<>>

\* C6: in the handlers with a retry loop, when all 3 fetches threw a network
\* error the client gets status 500 with the JSON error body and no relay is
\* started: no stream, no start marker, no heartbeat timer, no upstream read.
C6_ConnectFailureIs500 ==
  (HasRetry(variant) /\ attempt = 3 /\ netErrs = 3) =>
    /\ rpc = "failed"
    /\ clientStatus = 500
    /\ clientBody = "json"
    /\ pump = "idle" /\ wstate = "none" /\ upstream = "none"
    /\ wq = <<>> /\ sink = <<>> /\ ~timerOn

C6_Witness ==
  /\ HasRetry(variant)
  /\ attempt = 3
  /\ netErrs = 3
  /\ rpc = "failed"

\* C7: when all 3 fetches returned 429 or 503, the client gets a plain error
\* response and no streaming session is started: no start marker is written
\* and no heartbeat is scheduled.
C7_ExhaustedIsPreStreamFailure ==
  (HasRetry(variant) /\ attempt = 3 /\ netErrs = 0 /\ RetryableOutcome(last)
     /\ LoopEnded) =>
    /\ clientBody # "stream"
    /\ pump = "idle"
    /\ wq = <<>> /\ sink = <<>> /\ ~timerOn

\* C8: in the handler with an idle threshold (part_001), when the first
\* upstream chunk arrives after a silence of at least idleThresholdMs and the
\* client is connected, a heartbeat frame has been written or queued ahead
\* of it.
C8_HeartbeatAfterIdleThreshold ==
  [][(variant = "part_001" /\ rd = 0 /\ rd' = 1 /\ wstate = "writable"
        /\ now >= IdleThresholdMs) => HbSubmitted]_vars

\* C8 as amended: in part_001, when an upstream chunk arrives while the client
\* is connected and more than idleThresholdMs + checkIntervalMs have passed
\* since the last successful downstream write, a heartbeat frame is queued
\* ahead of it.
C8_HeartbeatAfterIdleAndCheck ==
  [][(variant = "part_001" /\ rd' = rd + 1 /\ wstate = "writable" /\ ~isFinished
        /\ now - lastWriteTime > IdleThresholdMs + CheckIntervalMs)
       => \E k \in DOMAIN wq : wq[k].f = HbFrame]_vars

C8_Witness ==
  /\ variant = "part_001"
  /\ rd = 1
  /\ ctx = "DataChunk"
  /\ pump = "go"
  /\ wstate = "writable"
  /\ now - lastWriteTime > IdleThresholdMs + CheckIntervalMs
  /\ \E k \in DOMAIN wq : wq[k].f = HbFrame

\* C9: once the relay session has terminated, the heartbeat timer is
\* cancelled.
C9_TimerCancelledOnTermination == Terminated => ~timerOn

\* C10: once the relay session has ended, the upstream body is no longer
\* open: it reached EOF, failed, or the reader was released.
C10_UpstreamReleasedOnTermination == pump = "done" => upstream # "open"

\* C11: the path fix prepends /v1beta to a pathname that begins with /models,
\* leaves a pathname that begins with /v1beta/models as it is, and applying it
\* again to its own result changes nothing.
C11_PathFixIdempotent ==
  /\ fixes >= 1 => targetPath = PathFix(pathname)
  /\ (fixes >= 1 /\ StartsWith(pathname, ModelsPrefix)) =>
        targetPath = VersionSegment \o pathname
  /\ StartsWith(pathname, VersionSegment \o ModelsPrefix) => targetPath = pathname

C11_Witness ==
  /\ fixes = 2
  /\ pathname = ModelsPrefix \o <<"/", "x">>
  /\ targetPath = VersionSegment \o ModelsPrefix \o <<"/", "x">>

\* A step that hands a heartbeat frame to writer.write().
HbSubmitStep == Len(wq') = Len(wq) + 1 /\ wq'[Len(wq')].f = HbFrame

\* C12: a heartbeat frame is submitted only while the session is not
\* terminated and at least idleThresholdMs after the latest successful
\* downstream write: a write that succeeded less than idleThresholdMs ago
\* suppresses the heartbeat.
C12_HeartbeatOnlyWhenIdle ==
  [][HbSubmitStep => (~Terminated /\ ~isFinished
                        /\ now - lastWriteTime >= IdleThresholdMs)]_vars

\* A step in which a task sees its awaited write rejected.
SeesRejection(t) == wres[t] = "rej" /\ wres'[t] = "none"

\* C13: when a downstream write is rejected, the activity that awaited it,
\* data pump or heartbeat, terminates the session in that same step: the pump
\* is stopped and the sink close issued, with no wait for a further upstream
\* chunk.
C13_RejectionTerminates ==
  [][(\E t \in Tasks : SeesRejection(t)) => pump' \in {"close", "done"}]_vars

\* Error frames handed to writer.write() so far: still queued or delivered.
ErrFramesWritten ==
  Cardinality({k \in DOMAIN wq : wq[k].f = ErrFrame})
    + Cardinality({k \in DOMAIN sink : sink[k] = ErrFrame})

\* C14: when an upstream read fails in a session with no rejected write, the
\* pump starts the write of one error frame before any close of the sink; at
\* most one error frame is ever written; and a session that ends with the
\* upstream neither finished nor failed (it ended on a rejected write) has
\* attempted no error frame.
C14_ErrorFrameOnlyOnReadFailure ==
  /\ [][(upstream = "open" /\ upstream' = "errored" /\ ~rejected)
          => (ctx' = "ErrorNotification" /\ pump' \in {"ready", "go"}
                /\ closeCalls' = 0)]_vars
  /\ [](ErrFramesWritten <= 1)
  /\ []((pump = "done" /\ upstream = "open")
          => (ctx # "ErrorNotification" /\ ErrFramesWritten = 0))

\* A step that calls writer.write(): a heartbeat or the pump going on from a
\* resolved `await writer.ready`, the pump of part_000 writing a chunk, or a
\* tick of part_000's timer.
WriteCalled ==
  \/ \E i \in HbTasks : HbReady(i) /\ ~ReadyRejects
  \/ PumpReady /\ ~ReadyRejects
  \/ variant = "part_000" /\ TickDetached
  \/ variant = "part_000" /\ pump = "read" /\ pump' = "write"

\* C15: once the pump has finished and the close of the sink has been issued,
\* no step calls writer.write(), neither from the pump nor from a heartbeat,
\* a heartbeat whose tick came before the end included.
C15_NoWriteAfterTermination == [][Terminated => ~WriteCalled]_vars

\* C16: writer.close() is called at most once in a session, and a session
\* whose streaming process has ended has called it exactly once and has not
\* left the sink writable; the response without a body included.
C16_SinkClosedExactlyOnce ==
  /\ closeCalls <= 1
  /\ pump = "done" => (closeCalls = 1 /\ wstate # "writable")

\* Heartbeat writes in flight: handed to writer.write() and not yet settled.
HbWritesInFlight == Cardinality({k \in DOMAIN wq : wq[k].f = HbFrame})

\* C17: at most one heartbeat write is in flight at any time: no tick starts a
\* heartbeat write while the write of an earlier tick is unsettled.
C17_HeartbeatNotConcurrent == HbWritesInFlight <= 1

\* Every frame handed to writer.write() and not rejected, in submission
\* order: the delivered ones, then the queued ones.
FramesWritten == sink \o [k \in DOMAIN wq |-> wq[k].f]

\* C18: the first frame written downstream is the start marker: no upstream
\* chunk and no heartbeat is written before it, and it is written once.
C18_StartMarkerFirst ==
  /\ FramesWritten # <<>> => FramesWritten[1].kind = "start"
  /\ \A k \in DOMAIN FramesWritten : FramesWritten[k].kind = "start" => k = 1

C18_Witness ==
  /\ Len(sink) >= 3
  /\ sink[1] = StartFrame
  /\ \E k \in DOMAIN sink : sink[k] = HbFrame
  /\ \E k \in DOMAIN sink : sink[k].kind = "data"

\* C19: a backoff sleep is in progress only after a 429 or 503 response, and
\* after the n-th fetch it lasts n * 1000 ms; when it ends, the next fetch
\* follows; a fetch that threw a network error starts no sleep.
C19_BackoffThenRetry ==
  /\ [](rpc = "sleep" =>
          (last.kind = "response" /\ last.status \in {429, 503}
             /\ sleepMs = attempt * 1000))
  /\ [][(rpc = "sleep" /\ rpc' # "sleep") => (rpc' = "connect" /\ attempt < 3)]_vars
  /\ [][(attempt' = attempt + 1 /\ last' = NetErr) => (rpc' # "sleep" /\ sleepMs' = 0)]_vars

\* C20: once a downstream write has been rejected, no later submission, from
\* the pump or from a heartbeat, calls writer.write().
C20_NoWriteAfterRejection == [][rejected => ~WriteCalled]_vars

\* C21: in the handlers with a retry loop, a relay is started only with the
\* response of the latest fetch (never with a response kept from an earlier
\* fetch after a later one threw), and the `!response` guard after the loop
\* is never what fails the request.
C21_RelaysLastAttempt ==
  HasRetry(variant) =>
    /\ rpc = "relay" =>
         (last.kind = "response" /\ response = last.status
            /\ clientStatus = last.status)
    /\ caught # "guard"

C21_Witness ==
  /\ HasRetry(variant)
  /\ rpc = "relay"
  /\ attempt = 3
  /\ netErrs = 1
  /\ last = Resp(200)
  /\ clientStatus = 200

====
